---- MODULE Spec2Model ----
(***************************************************************************)
(* A model of the ray tracer in src/ray_tracing_weekend/src: vec3.rs,      *)
(* ray.rs, math_util.rs and main.rs.                                       *)
(*                                                                         *)
(* Numbers.  An f64 is modelled as a fixed-point number: the integer n     *)
(* stands for the real n / Scale.  Addition, subtraction, negation and     *)
(* comparison are exact; a product, a quotient and a square root are       *)
(* rounded toward zero to a multiple of 1/Scale, as f64 rounds them to the *)
(* nearest double.  All inputs are chosen so that every intermediate value *)
(* stays far below 2^31.                                                   *)
(*                                                                         *)
(* Randomness.  Every call of f64::random() and of the random vector       *)
(* generators is a nondeterministic choice from a small set of values the  *)
(* generator can return.                                                   *)
(*                                                                         *)
(* Option<T> is a sequence: None is << >>, Some(x) is << x >>.             *)
(***************************************************************************)
EXTENDS Integers, Sequences, FiniteSets, TLC

\* ------------------------------------------------------------------ f64
\* One unit of f64 in fixed point.
Scale == 1000

Abs(n) == IF n < 0 THEN -n ELSE n

\* n / d rounded toward zero (d # 0).
Quot(n, d) ==
    IF (n >= 0) = (d > 0) THEN Abs(n) \div Abs(d) ELSE -(Abs(n) \div Abs(d))

\* f64 `*`
FMul(a, b) == Quot(a * b, Scale)

\* f64 `/` (b # 0)
FDiv(a, b) == Quot(a * Scale, b)

RECURSIVE ISqrtIter(_, _, _)
\* The largest r in lo..hi with r * r <= n, by bisection (lo * lo <= n).
ISqrtIter(n, lo, hi) ==
    IF lo >= hi THEN lo
    ELSE LET mid == (lo + hi + 1) \div 2
         IN  IF mid * mid <= n THEN ISqrtIter(n, mid, hi)
             ELSE ISqrtIter(n, lo, mid - 1)

\* floor(sqrt(n)) for 0 <= n < 2^31.
ISqrt(n) == ISqrtIter(n, 0, IF n < 46340 THEN n ELSE 46340)

\* f64::sqrt (a >= 0)
FSqrt(a) == ISqrt(a * Scale)

\* f64::min
FMin(a, b) == IF a < b THEN a ELSE b

\* math_util::infinite(): f64::MAX, the greatest finite value of the number
\* type; here the greatest fixed-point value.
infinite == 2147483647

\* ------------------------------------------------------------------ vec3.rs
Vec(x, y, z) == [x |-> x, y |-> y, z |-> z]

\* A vector with integer components, in fixed point.
IVec(x, y, z) == Vec(x * Scale, y * Scale, z * Scale)

\* Vec3::default()
Vec3Default == Vec(0, 0, 0)

\* impl Add<Vec3> for Vec3
VAdd(a, b) == Vec(a.x + b.x, a.y + b.y, a.z + b.z)

\* impl Sub<Vec3> for Vec3
VSub(a, b) == Vec(a.x - b.x, a.y - b.y, a.z - b.z)

\* impl Neg for Vec3
VNeg(a) == Vec(-a.x, -a.y, -a.z)

\* impl Mul<Vec3> for f64 and impl Mul<f64> for Vec3
VScale(k, a) == Vec(FMul(k, a.x), FMul(k, a.y), FMul(k, a.z))

\* impl Mul<Vec3> for Vec3 (component-wise)
VMul(a, b) == Vec(FMul(a.x, b.x), FMul(a.y, b.y), FMul(a.z, b.z))

\* impl Div<f64> for Vec3
VDiv(a, k) == Vec(FDiv(a.x, k), FDiv(a.y, k), FDiv(a.z, k))

dot(lhs, rhs) == FMul(lhs.x, rhs.x) + FMul(lhs.y, rhs.y) + FMul(lhs.z, rhs.z)

cross(lhs, rhs) ==
    Vec(FMul(lhs.y, rhs.z) - FMul(lhs.z, rhs.y),
        FMul(lhs.z, rhs.x) - FMul(lhs.x, rhs.z),
        FMul(lhs.x, rhs.y) - FMul(lhs.y, rhs.x))

reflect(v, normal) == VSub(v, VScale(FMul(2 * Scale, dot(v, normal)), normal))

length_squared(v) == FMul(v.x, v.x) + FMul(v.y, v.y) + FMul(v.z, v.z)

length(v) == FSqrt(length_squared(v))

get_normalized(v) == VDiv(v, length(v))

\* ------------------------------------------------------------------ ray.rs
Ray(origin, dir) == [origin |-> origin, dir |-> dir]

\* Ray::at
at(r, t) == VAdd(r.origin, VScale(t, r.dir))

\* ------------------------------------------------------------------ Option
None == << >>
Some(x) == << x >>
IsSome(o) == Len(o) = 1
Unwrap(o) == o[1]

\* ------------------------------------------------------------------ materials
\* struct Lambertian { albedo }
Lambertian(albedo) ==
    [kind |-> "Lambertian", albedo |-> albedo, fuzz |-> 0, ref_idx |-> 0]

\* struct Metal { albedo, fuzz }
Metal(albedo, fuzz) ==
    [kind |-> "Metal", albedo |-> albedo, fuzz |-> fuzz, ref_idx |-> 0]

\* struct Dielectric { ref_idx }
Dielectric(ref_idx) ==
    [kind |-> "Dielectric", albedo |-> Vec3Default, fuzz |-> 0, ref_idx |-> ref_idx]

\* ------------------------------------------------------------------ HitRecord
\* impl Default for HitRecord
HitRecordDefault ==
    [p |-> Vec3Default, normal |-> Vec3Default, t |-> 0, front_face |-> FALSE,
     material |-> Lambertian(Vec3Default)]

\* HitRecord::set_face_normal with the test reversed (`> 0.0`): the stored
\* normal points along the ray instead of against it.
set_face_normal_flipped(self, r, outward_normal) ==
    LET front_face == dot(r.dir, outward_normal) > 0
    IN  [self EXCEPT !.front_face = front_face,
                     !.normal = IF front_face THEN outward_normal
                                ELSE VNeg(outward_normal)]

\* HitRecord::set_face_normal
set_face_normal(self, r, outward_normal) ==
    LET front_face == dot(r.dir, outward_normal) < 0
    IN  [self EXCEPT !.front_face = front_face,
                     !.normal = IF front_face THEN outward_normal
                                ELSE VNeg(outward_normal)]

\* ------------------------------------------------------------------ Sphere
\* struct Sphere { center, radius, material }
Sphere(center, radius, material) ==
    [center |-> center, radius |-> radius, material |-> material]

\* The record Sphere::hit builds for an accepted root `temp`.
SphereRecord(self, r, temp) ==
    LET p == at(r, temp)
        record == [HitRecordDefault EXCEPT !.t = temp, !.p = p,
                                           !.material = self.material]
        outward_normal == VDiv(VSub(p, self.center), self.radius)
    IN  set_face_normal(record, r, outward_normal)

\* Sphere::hit accepting a tangent ray (`discriminant >= 0.0`).
SphereHitTangent(self, r, tmin, tmax) ==
    LET oc == VSub(r.origin, self.center)
        a == length_squared(r.dir)
        half_b == dot(oc, r.dir)
        c == length_squared(oc) - FMul(self.radius, self.radius)
        discriminant == FMul(half_b, half_b) - FMul(a, c)
    IN  IF discriminant >= 0
        THEN LET root == FSqrt(discriminant)
                 temp1 == FDiv(-half_b - root, a)
                 temp2 == FDiv(-half_b + root, a)
             IN  IF temp1 < tmax /\ temp1 > tmin
                 THEN Some(SphereRecord(self, r, temp1))
                 ELSE IF temp2 < tmax /\ temp2 > tmin
                 THEN Some(SphereRecord(self, r, temp2))
                 ELSE None
        ELSE None

\* Sphere::hit with closed bounds (`temp <= t_max && temp >= t_min`).
SphereHitClosed(self, r, tmin, tmax) ==
    LET oc == VSub(r.origin, self.center)
        a == length_squared(r.dir)
        half_b == dot(oc, r.dir)
        c == length_squared(oc) - FMul(self.radius, self.radius)
        discriminant == FMul(half_b, half_b) - FMul(a, c)
    IN  IF discriminant > 0
        THEN LET root == FSqrt(discriminant)
                 temp1 == FDiv(-half_b - root, a)
                 temp2 == FDiv(-half_b + root, a)
             IN  IF temp1 <= tmax /\ temp1 >= tmin
                 THEN Some(SphereRecord(self, r, temp1))
                 ELSE IF temp2 <= tmax /\ temp2 >= tmin
                 THEN Some(SphereRecord(self, r, temp2))
                 ELSE None
        ELSE None

\* impl Hittable for Sphere: hit
SphereHit(self, r, tmin, tmax) ==
    LET oc == VSub(r.origin, self.center)
        a == length_squared(r.dir)
        half_b == dot(oc, r.dir)
        c == length_squared(oc) - FMul(self.radius, self.radius)
        discriminant == FMul(half_b, half_b) - FMul(a, c)
    IN  IF discriminant > 0
        THEN LET root == FSqrt(discriminant)
                 temp1 == FDiv(-half_b - root, a)
                 temp2 == FDiv(-half_b + root, a)
             IN  IF temp1 < tmax /\ temp1 > tmin
                 THEN Some(SphereRecord(self, r, temp1))
                 ELSE IF temp2 < tmax /\ temp2 > tmin
                 THEN Some(SphereRecord(self, r, temp2))
                 ELSE None
        ELSE None

\* ------------------------------------------------------------------ HittableList
\* The state of the scan of HittableList::hit: the closure's captured
\* `record`, `hit_anithing` and `closest_so_far`.
ScanInit(tmax) ==
    [record |-> HitRecordDefault, hit_anithing |-> FALSE, closest_so_far |-> tmax]

\* The closure of HittableList::hit without `closest_so_far = ...t`: every
\* member is tested against the caller's t_max, and the last hit wins.
ScanStepNoShrink(st, object, r, tmin) ==
    LET h == SphereHit(object, r, tmin, st.closest_so_far)
    IN  IF IsSome(h)
        THEN [record |-> Unwrap(h), hit_anithing |-> TRUE,
              closest_so_far |-> st.closest_so_far]
        ELSE st

\* One call of the closure of HittableList::hit on `object`.
ScanStep(st, object, r, tmin) ==
    LET h == SphereHit(object, r, tmin, st.closest_so_far)
    IN  IF IsSome(h)
        THEN [record |-> Unwrap(h), hit_anithing |-> TRUE,
              closest_so_far |-> Unwrap(h).t]
        ELSE st

RECURSIVE Scan(_, _, _, _)
\* self.objects.iter().for_each(...)
Scan(st, objs, r, tmin) ==
    IF objs = << >> THEN st
    ELSE Scan(ScanStep(st, Head(objs), r, tmin), Tail(objs), r, tmin)

\* impl Hittable for HittableList: hit
HittableListHit(objs, r, tmin, tmax) ==
    LET st == Scan(ScanInit(tmax), objs, r, tmin)
    IN  IF st.hit_anithing THEN Some(st.record) ELSE None

\* ------------------------------------------------------------------ random draws
\* Values f64::random() can return (rand::random::<f64>() is in [0, 1)).
F64Random == { 0, Scale \div 2, Scale - 1 }

\* f64::random_range(min, max), for the draw `rnd` of f64::random()
random_range(min, max, rnd) == min + FMul(max - min, rnd)

\* Values Vec3::random_range(-1.0, 1.0) can return.
Vec3RandomRange ==
    { Vec(random_range(-Scale, Scale, a), random_range(-Scale, Scale, b),
          random_range(-Scale, Scale, c)) :
        a \in { 0, Scale \div 2, (3 * Scale) \div 4 },
        b \in { 0, Scale \div 2, (3 * Scale) \div 4 },
        c \in { 0, Scale \div 2, (3 * Scale) \div 4 } }

\* random_vec3_in_unit_sphere: the test of its loop, `continue` when
\* p.length_squared() > 1.0
rejected(p) == length_squared(p) > Scale

\* random_vec3_in_unit_sphere has returned: the loop, whose p is `loop_p`
\* (None before the first turn), has drawn a p that is not rejected.
returned(loop_p) == IsSome(loop_p) /\ ~rejected(Unwrap(loop_p))

\* Values random_unit_vec3() can return: (r cos a, r sin a, z) with
\* r = sqrt(1 - z * z), for a few a and z.
random_unit_vec3 ==
    { IVec(1, 0, 0), IVec(0, 1, 0), IVec(-1, 0, 0), IVec(0, -1, 0),
      IVec(0, 0, -1), Vec(600, 0, 800), Vec(0, 800, -600) }

\* Values random_in_unit_disk() can return: points of the unit disk in the
\* plane z = 0.
random_in_unit_disk ==
    { Vec(x, y, 0) : x \in { -Scale \div 2, 0, Scale \div 2 },
                     y \in { -Scale \div 2, 0, Scale \div 2 } }

\* The draws one call of scatter makes: `unit` is random_unit_vec3(),
\* `sphere` is random_vec3_in_unit_sphere(), `f` is f64::random().
Draw(unit, sphere, f) == [unit |-> unit, sphere |-> sphere, f |-> f]

\* The draws a scatter call of a material returns with (the others are not
\* made): Metal::scatter goes on with the p random_vec3_in_unit_sphere
\* returns, and with nothing as long as that has not returned.
DrawsFor(material, loop_p) ==
    IF material.kind = "Lambertian"
    THEN { Draw(u, Vec3Default, 0) : u \in random_unit_vec3 }
    ELSE IF material.kind = "Metal"
    THEN IF returned(loop_p) THEN { Draw(Vec3Default, Unwrap(loop_p), 0) } ELSE { }
    ELSE { Draw(Vec3Default, Vec3Default, f) : f \in F64Random }

\* ------------------------------------------------------------------ math_util.rs
\* f64::powf(x, 2.0)
Pow2(x) == FMul(x, x)

\* f64::powf(x, 5.0)
Pow5(x) == FMul(FMul(FMul(FMul(x, x), x), x), x)

schlick(cosine, ref_idx) ==
    LET r0 == Pow2(FDiv(Scale - ref_idx, Scale + ref_idx))
    IN  r0 + FMul(Scale - r0, Pow5(Scale - cosine))

\* refract(uv, n, etai_over_etat): Snell's law, by the components of the
\* refracted ray perpendicular and parallel to the normal.
refract(uv, n, etai_over_etat) ==
    LET cos_theta == FMin(dot(VNeg(uv), n), Scale)
        r_out_perp == VScale(etai_over_etat, VAdd(uv, VScale(cos_theta, n)))
        r_out_parallel ==
            VScale(-FSqrt(Abs(Scale - length_squared(r_out_perp))), n)
    IN  VAdd(r_out_perp, r_out_parallel)

\* ------------------------------------------------------------------ scatter
\* Option<(Colour, Ray)>
Scattered(attenuation, scattered) ==
    Some([attenuation |-> attenuation, scattered |-> scattered])

\* impl Material for Lambertian: scatter
LambertianScatter(self, r_in, rec, rnd) ==
    LET scatter_direction == VAdd(rec.normal, rnd.unit)
    IN  Scattered(self.albedo, Ray(rec.p, scatter_direction))

\* impl Material for Metal: scatter
MetalScatter(self, r_in, rec, rnd) ==
    LET reflected == reflect(get_normalized(r_in.dir), rec.normal)
        scattered == Ray(rec.p, VAdd(reflected, VScale(self.fuzz, rnd.sphere)))
    IN  IF dot(scattered.dir, rec.normal) > 0
        THEN Scattered(self.albedo, scattered)
        ELSE None

\* Dielectric::scatter: etai_over_etat
EtaiOverEtat(self, rec) ==
    IF rec.front_face THEN FDiv(Scale, self.ref_idx) ELSE self.ref_idx

\* Dielectric::scatter: cos_theta
CosTheta(r_in, rec) ==
    FMin(dot(VNeg(get_normalized(r_in.dir)), rec.normal), Scale)

\* Dielectric::scatter: sin_theta
SinTheta(r_in, rec) ==
    FSqrt(Scale - FMul(CosTheta(r_in, rec), CosTheta(r_in, rec)))

\* Dielectric::scatter with `etai_over_etat * sin_theta >= 1.0`.
DielectricBranchAtLeast(self, r_in, rec, rnd) ==
    IF FMul(EtaiOverEtat(self, rec), SinTheta(r_in, rec)) >= Scale
    THEN "total internal reflection"
    ELSE IF rnd.f < schlick(CosTheta(r_in, rec), EtaiOverEtat(self, rec))
    THEN "reflect"
    ELSE "refract"

\* The branch Dielectric::scatter takes: the first `if`, the `if` on the
\* draw, or its `else`.
DielectricBranch(self, r_in, rec, rnd) ==
    IF FMul(EtaiOverEtat(self, rec), SinTheta(r_in, rec)) > Scale
    THEN "total internal reflection"
    ELSE IF rnd.f < schlick(CosTheta(r_in, rec), EtaiOverEtat(self, rec))
    THEN "reflect"
    ELSE "refract"

\* impl Material for Dielectric: scatter
DielectricScatter(self, r_in, rec, rnd) ==
    LET attenuation == Vec(Scale, Scale, Scale)
        unit_direction == get_normalized(r_in.dir)
    IN  IF DielectricBranch(self, r_in, rec, rnd) = "refract"
        THEN Scattered(attenuation,
                       Ray(rec.p, refract(unit_direction, rec.normal,
                                          EtaiOverEtat(self, rec))))
        ELSE Scattered(attenuation,
                       Ray(rec.p, reflect(unit_direction, rec.normal)))

\* record.material.scatter(r_in, rec): the dynamic dispatch on the material
scatter(self, r_in, rec, rnd) ==
    IF self.kind = "Lambertian" THEN LambertianScatter(self, r_in, rec, rnd)
    ELSE IF self.kind = "Metal" THEN MetalScatter(self, r_in, rec, rnd)
    ELSE DielectricScatter(self, r_in, rec, rnd)

\* ------------------------------------------------------------------ ray_colour
\* The background of ray_colour: the gradient from white to sky blue.
background(r) ==
    LET unit_direction == get_normalized(r.dir)
        t == FMul(Scale \div 2, unit_direction.y + Scale)
    IN  VAdd(VScale(Scale - t, Vec(Scale, Scale, Scale)),
             VScale(t, Vec(Scale \div 2, (7 * Scale) \div 10, Scale)))

\* ray_colour: `if depth <= 0`, written `depth < 0`: one bounce more than
\* the budget.
exhausted_below_zero(depth) == depth < 0

\* ray_colour: `if depth <= 0`
exhausted(depth) == depth <= 0

\* ray_colour: hittable.hit(ray, 0.001, infinite())
ray_colour_hit(r, world) == HittableListHit(world, r, 1, infinite)

\* ray_colour returning the callee's value without the attenuation.
attenuate_dropped(attenuation, callee) == callee

\* ray_colour: attenuation * ray_colour(scattered, hittable, depth - 1)
attenuate(attenuation, callee) == VMul(attenuation, callee)

\* ray_colour: the value returned for an absorbed ray, Colour::default()
absorbed == Vec3Default

\* How an invocation of ray_colour ended and the value it returned.
Outcome(tag, value) == [tag |-> tag, colour |-> value]

\* ------------------------------------------------------------------ camera
\* struct Camera
Camera(origin, lower_left_corner, horizontal, vertical, lens_radius) ==
    [origin |-> origin, lower_left_corner |-> lower_left_corner,
     horizontal |-> horizontal, vertical |-> vertical, lens_radius |-> lens_radius]

\* The arguments of create_camera.
CameraArgs(lookfrom, lookat, vup, vfov, aspect_ratio, aperture, focus_dist) ==
    [lookfrom |-> lookfrom, lookat |-> lookat, vup |-> vup, vfov |-> vfov,
     aspect_ratio |-> aspect_ratio, aperture |-> aperture, focus_dist |-> focus_dist]

\* Angles and their tangents are carried in a finer fixed point: the integer
\* n stands for n / Fine.
Fine == 1000000

\* A value of the coarser fixed point in the finer one.
ToFine(a) == a * (Fine \div Scale)

\* A value of the finer fixed point in the coarser one, to the nearest.
FromFine(a) ==
    IF a >= 0 THEN (a + (Fine \div Scale) \div 2) \div (Fine \div Scale)
    ELSE -((-a + (Fine \div Scale) \div 2) \div (Fine \div Scale))

\* f64 `*` in the finer fixed point (a, b >= 0): a * b / Fine, taken in
\* parts so that no intermediate value leaves 32 bits.
FineMul(a, b) ==
    LET ah == a \div 1000
        al == a % 1000
        bh == b \div 1000
        bl == b % 1000
        m == ah * bl + al * bh
    IN  ah * bh + m \div 1000 + ((m % 1000) * 1000 + al * bl) \div Fine

\* f64 `/` in the finer fixed point (a >= 0, 0 < b < 21 * Fine): a * Fine / b
\* by long division, two decimal digits at a time.
FineDiv(a, b) ==
    LET r0 == a % b
        r1 == (r0 * 100) % b
        r2 == (r1 * 100) % b
    IN  (a \div b) * Fine + ((r0 * 100) \div b) * 10000
            + ((r1 * 100) \div b) * 100 + (r2 * 100) \div b

\* pi
Pi == 3141593

\* f64::to_radians: degrees * pi / 180
to_radians(degrees) ==
    IF degrees >= 0 THEN FineMul(degrees, Pi) \div 180
    ELSE -(FineMul(-degrees, Pi) \div 180)

RECURSIVE TanDenominator(_, _, _)
\* The continued fraction of the tangent,
\* tan x = x / (1 - x^2 / (3 - x^2 / (5 - ...))): the denominator that
\* starts at 2k - 1, n levels deep.
TanDenominator(x2, k, n) ==
    IF n = 0 THEN (2 * k - 1) * Fine
    ELSE (2 * k - 1) * Fine - FineDiv(x2, TanDenominator(x2, k + 1, n - 1))

\* tan x for 0 <= x < pi / 2
TanFirstQuadrant(x) == FineDiv(x, TanDenominator(FineMul(x, x), 1, 8))

\* tan x for x >= 0: the period is pi, and tan(pi - x) = -tan x
TanNonNegative(x) ==
    LET y == x % Pi
    IN  IF 2 * y > Pi THEN -TanFirstQuadrant(Pi - y) ELSE TanFirstQuadrant(y)

\* f64::tan
tan(x) == IF x >= 0 THEN TanNonNegative(x) ELSE -TanNonNegative(-x)

\* create_camera: h = f64::tan(f64::to_radians(vfov) / 2.0)
tan_half(vfov) == FromFine(tan(Quot(to_radians(ToFine(vfov)), 2)))

\* create_camera: w, u and v
camera_w(a) == get_normalized(VSub(a.lookfrom, a.lookat))
camera_u(a) == get_normalized(cross(a.vup, camera_w(a)))
camera_v(a) == cross(camera_w(a), camera_u(a))

create_camera(a) ==
    LET h == tan_half(a.vfov)
        viewport_height == FMul(2 * Scale, h)
        viewport_width == FMul(a.aspect_ratio, viewport_height)
        origin == a.lookfrom
        horizontal == VScale(a.focus_dist, VScale(viewport_width, camera_u(a)))
        vertical == VScale(a.focus_dist, VScale(viewport_height, camera_v(a)))
        lower_left_corner ==
            VSub(VSub(VSub(origin, VDiv(horizontal, 2 * Scale)),
                      VDiv(vertical, 2 * Scale)),
                 VScale(a.focus_dist, camera_w(a)))
    IN  Camera(origin, lower_left_corner, horizontal, vertical,
               FDiv(a.aperture, 2 * Scale))

\* get_ray(camera, s, t), for the draw `disk` of random_in_unit_disk()
get_ray(camera, s, t, disk) ==
    LET rd == VScale(camera.lens_radius, disk)
        offset == Vec(FMul(s, rd.x), FMul(t, rd.y), 0)
    IN  Ray(VAdd(camera.origin, offset),
            VSub(VSub(VAdd(VAdd(camera.lower_left_corner,
                                VScale(s, camera.horizontal)),
                           VScale(t, camera.vertical)),
                      camera.origin),
                 offset))

\* ------------------------------------------------------------------ frame driver
\* A line of standard output.
Line(tag, v) == [tag |-> tag, v |-> v]

\* The integer part of 255.999 * 255.999 * c for a fixed-point c >= 0:
\* 65535.488001 * c, multiplied out three decimal digits at a time.
Times255999Squared(c) ==
    65 * c + (535 * c + (488 * c + c \div 1000) \div 1000) \div 1000

\* write_colour, one channel: (255.999 * f64::sqrt(scale * c)) as i32 with
\* scale = 1.0 / samples_per_pixel.  The integer part of 255.999 * sqrt(x)
\* is the integer square root of 255.999^2 * x, which keeps the digits the
\* cast depends on; the square root of a negative number is NaN, and NaN as
\* i32 is 0.
channel(c, samples_per_pixel) ==
    IF c < 0 THEN 0
    ELSE ISqrt(Times255999Squared(c) \div samples_per_pixel)

\* write_colour with the factor 256.0 for 255.999.
write_colour_256(pixel_colour, samples_per_pixel) ==
    LET r == ISqrt((65536 * pixel_colour.x) \div (Scale * samples_per_pixel))
        g == ISqrt((65536 * pixel_colour.y) \div (Scale * samples_per_pixel))
        b == ISqrt((65536 * pixel_colour.z) \div (Scale * samples_per_pixel))
    IN  Line("rgb", << r, g, b >>)

\* write_colour(pixel_colour, samples_per_pixel): the line it prints
write_colour(pixel_colour, samples_per_pixel) ==
    LET r == channel(pixel_colour.x, samples_per_pixel)
        g == channel(pixel_colour.y, samples_per_pixel)
        b == channel(pixel_colour.z, samples_per_pixel)
    IN  Line("rgb", << r, g, b >>)

\* main: image_height = (image_width as f64 / aspect_ratio) as i32, with
\* aspect_ratio = 16.0 / 9.0: the integer part of image_width * 9 / 16
height_of(image_width) == (image_width * 9) \div 16

\* The rows bottom-up: 0..image_height without .rev().
rows_forward(image_height) == [k \in 1..image_height |-> k - 1]

\* main: (0..image_height).rev(), the rows in the order the loop takes them
rows(image_height) == [k \in 1..image_height |-> image_height - k]

\* main: the three header lines
header(image_width, image_height) ==
    << Line("P3", << >>), Line("size", << image_width, image_height >>),
       Line("max", << 255 >>) >>

\* ================================================================== state
VARIABLES
    \* SpecHit: the arguments and the result of one intersection call
    ray, objects, t_min, t_max, outward_normal, this, call, ret,
    \* SpecScatter: the arguments, the draws and the result of one scatter call
    material, r_in, rec, rnd, scattered, scatter_called,
    \* SpecScatter, SpecPath: the p of the loop of random_vec3_in_unit_sphere
    \* while Metal::scatter is in it, None otherwise
    sphere_p,
    \* SpecPath: one outermost call ray_colour(_, world, depth0).  `path_ray`
    \* and `depth` are the arguments of the innermost invocation made so far,
    \* `frames` the attenuations of the invocations that called themselves,
    \* `sp` how many of them have not returned yet, `colour` the value last
    \* returned, `record` the result of the innermost invocation's hit test,
    \* `terminal` how the innermost invocation ended, and `n_hit`,
    \* `n_scatter` count the hit tests and the scatter calls.
    world, path_ray, depth, depth0, record, frames, sp, colour, pc, n_hit,
    n_scatter, terminal,
    \* SpecCamera: the arguments of create_camera, the camera built from
    \* them, the arguments of one get_ray call, its draw of
    \* random_in_unit_disk() and its result
    cam_args, camera, cam_s, cam_t, disk, got_ray,
    \* SpecMain, SpecPixel: main's locals (`j_iter` is the rest of the row
    \* iterator, its head the current j; `s_idx` is _s), the lines printed,
    \* `order` the (j, i) of each pixel line printed, `bar` the position of
    \* the progress bar, `written` the line of the pixel followed by SpecPixel
    main_pc, image_width, image_height, samples_per_pixel, j_iter, i, s_idx,
    pixel_colour, stdout, order, bar, written

hitVars == << ray, objects, t_min, t_max, outward_normal, this, call, ret >>

scatterVars == << material, r_in, rec, rnd, scattered, scatter_called >>

pathVars ==
    << world, path_ray, depth, depth0, record, frames, sp, colour, pc, n_hit,
       n_scatter, terminal >>

cameraVars == << cam_args, camera, cam_s, cam_t, disk, got_ray >>

mainVars ==
    << main_pc, image_width, image_height, samples_per_pixel, j_iter, i, s_idx,
       pixel_colour, stdout, order, bar, written >>

loopVars == << sphere_p >>

vars == << hitVars, scatterVars, loopVars, pathVars, cameraVars, mainVars >>

\* random_vec3_in_unit_sphere is not running.
LoopIdle == sphere_p = None

\* One turn of the loop of random_vec3_in_unit_sphere: entered, or gone
\* round again after a rejected p, it draws p = Vec3::random_range(-1.0, 1.0).
random_vec3_in_unit_sphere ==
    /\ ~returned(sphere_p)
    /\ \E p \in Vec3RandomRange : sphere_p' = Some(p)

\* No intersection call is being followed.
HitIdle ==
    /\ ray = Ray(Vec3Default, Vec3Default)
    /\ objects = << >>
    /\ t_min = 0
    /\ t_max = 0
    /\ outward_normal = Vec3Default
    /\ this = 0
    /\ call = "none"
    /\ ret = None

\* No scatter call is being followed.
ScatterIdle ==
    /\ material = Lambertian(Vec3Default)
    /\ r_in = Ray(Vec3Default, Vec3Default)
    /\ rec = HitRecordDefault
    /\ rnd = Draw(Vec3Default, Vec3Default, 0)
    /\ scattered = None
    /\ scatter_called = FALSE

\* No call of ray_colour is being followed.
PathIdle ==
    /\ world = << >>
    /\ path_ray = Ray(Vec3Default, Vec3Default)
    /\ depth = 0
    /\ depth0 = 0
    /\ record = None
    /\ frames = << >>
    /\ sp = 0
    /\ colour = Vec3Default
    /\ pc = "idle"
    /\ n_hit = 0
    /\ n_scatter = 0
    /\ terminal = Outcome("none", Vec3Default)

\* No camera call is being followed.
CameraIdle ==
    /\ cam_args = CameraArgs(Vec3Default, Vec3Default, Vec3Default, 0, 0, 0, 0)
    /\ camera = Camera(Vec3Default, Vec3Default, Vec3Default, Vec3Default, 0)
    /\ cam_s = 0
    /\ cam_t = 0
    /\ disk = Vec3Default
    /\ got_ray = None

\* main is not being followed.
MainIdle ==
    /\ main_pc = "idle"
    /\ image_width = 0
    /\ image_height = 0
    /\ samples_per_pixel = 0
    /\ j_iter = << >>
    /\ i = 0
    /\ s_idx = 0
    /\ pixel_colour = Vec3Default
    /\ stdout = << >>
    /\ order = << >>
    /\ bar = 0
    /\ written = None

\* ------------------------------------------------------------------ bounds
\* The longest HittableList.objects.
MaxObjects == 3

\* The largest depth ray_colour is first called with (main passes 50).
MaxDepth == 3

\* The image width main renders (main's is 384).
ImageWidth == 4

\* The samples per pixel main takes (main's is 100).
SamplesPerPixel == 1

\* The largest number of samples per pixel SpecPixel accumulates.
MaxSamples == 3

\* ------------------------------------------------------------------ SpecHit
Grey == Vec(Scale \div 2, Scale \div 2, Scale \div 2)

\* The spheres a scene is built from.  A ray from the origin along -z meets
\* the first at t = 1 and 3, the second at 3 and 5, touches the third in
\* one point, meets the fourth (negative radius, as main's inner glass
\* sphere) at 0 and 4, and starts at the centre of the fifth.
Spheres ==
    { Sphere(IVec(0, 0, -2), 1 * Scale, Lambertian(Grey)),
      Sphere(IVec(0, 0, -4), 1 * Scale, Metal(Grey, 0)),
      Sphere(IVec(1, 0, -2), 1 * Scale, Lambertian(Grey)),
      Sphere(IVec(0, 0, -2), -2 * Scale, Dielectric((3 * Scale) \div 2)),
      Sphere(IVec(0, 0, 0), 1 * Scale, Dielectric((3 * Scale) \div 2)) }

Rays ==
    { Ray(IVec(0, 0, 0), IVec(0, 0, -1)),
      Ray(IVec(0, 0, 0), IVec(0, 0, -2)),
      Ray(IVec(0, 0, 0), IVec(0, 0, 1)),
      Ray(IVec(0, 0, 0), IVec(1, 0, -2)),
      Ray(IVec(0, 0, 0), IVec(0, 1, -4)),
      Ray(IVec(1, 0, 0), IVec(0, 0, -1)),
      Ray(IVec(-1, 0, 1), IVec(0, 0, -1)),
      Ray(IVec(0, 0, -2), IVec(1, 0, 0)) }

\* 0.001 is ray_colour's t_min.
TMins == { 1, 1 * Scale }

TMaxs == { 1 * Scale, 3 * Scale, infinite }

OutwardNormals ==
    { IVec(1, 0, 0), IVec(0, 1, 0), IVec(0, 0, 1), IVec(0, 0, -1),
      Vec(600, 0, 800), Vec(-600, 0, -800), Vec(0, -800, 600) }

\* All sequences over S of length at most n.
RECURSIVE SeqsUpTo(_, _)
SeqsUpTo(S, n) ==
    IF n = 0 THEN { << >> }
    ELSE LET shorter == SeqsUpTo(S, n - 1)
         IN  shorter \cup { Append(q, e) : q \in shorter, e \in S }

InitHit ==
    /\ ray \in Rays
    /\ objects \in SeqsUpTo(Spheres, MaxObjects)
    /\ t_min \in TMins
    /\ t_max \in TMaxs
    /\ outward_normal = Vec3Default
    /\ this = 0
    /\ call = "none"
    /\ ret = None
    /\ ScatterIdle
    /\ PathIdle
    /\ CameraIdle
    /\ MainIdle
    /\ LoopIdle

\* objects[k].hit(ray, t_min, t_max)
CallSphereHit ==
    /\ call = "none"
    /\ \E k \in 1..Len(objects) :
        /\ this' = k
        /\ ret' = SphereHit(objects[k], ray, t_min, t_max)
    /\ call' = "Sphere::hit"
    /\ UNCHANGED << ray, objects, t_min, t_max, outward_normal, scatterVars, loopVars,
                    pathVars, cameraVars, mainVars >>

\* HittableList { objects }.hit(ray, t_min, t_max)
CallHittableListHit ==
    /\ call = "none"
    /\ ret' = HittableListHit(objects, ray, t_min, t_max)
    /\ call' = "HittableList::hit"
    /\ UNCHANGED << ray, objects, t_min, t_max, outward_normal, this, scatterVars, loopVars,
                    pathVars, cameraVars, mainVars >>

\* HitRecord::default().set_face_normal(ray, outward_normal)
CallSetFaceNormal ==
    /\ call = "none"
    /\ \E n \in OutwardNormals :
        /\ outward_normal' = n
        /\ ret' = Some(set_face_normal(HitRecordDefault, ray, n))
    /\ call' = "set_face_normal"
    /\ UNCHANGED << ray, objects, t_min, t_max, this, scatterVars, loopVars,
                    pathVars, cameraVars, mainVars >>

NextHit == CallSphereHit \/ CallHittableListHit \/ CallSetFaceNormal

SpecHit == InitHit /\ [][NextHit]_vars

\* ------------------------------------------------------------------ claims on SpecHit
\* The quadratic |O + tD - C|^2 = r^2 of the sphere `this` and the ray.
QA == length_squared(ray.dir)
QHalfB == dot(VSub(ray.origin, objects[this].center), ray.dir)
QC ==
    length_squared(VSub(ray.origin, objects[this].center))
        - FMul(objects[this].radius, objects[this].radius)
QDisc == FMul(QHalfB, QHalfB) - FMul(QA, QC)
QRoot1 == FDiv(-QHalfB - FSqrt(QDisc), QA)
QRoot2 == FDiv(-QHalfB + FSqrt(QDisc), QA)
InOpen(x) == t_min < x /\ x < t_max

\* What each member of the list reports for (t_min, t_max) on its own.
MemberHits ==
    { SphereHit(objects[k], ray, t_min, t_max) : k \in 1..Len(objects) } \ { None }

\* C1: HittableList.hit returns None iff no member reports a hit in
\* (t_min, t_max), and otherwise the record of a member whose t is the
\* minimum over all members' hits in (t_min, t_max), whatever the order of
\* the members.
C1_ClosestHit ==
    call = "HittableList::hit" =>
        IF MemberHits = {} THEN ret = None
        ELSE /\ ret \in MemberHits
             /\ \A h \in MemberHits : Unwrap(ret).t <= Unwrap(h).t

\* A list of three members that all hit, the second one closest.
C1_Witness ==
    /\ call = "HittableList::hit"
    /\ Len(objects) = 3
    /\ \A k \in 1..3 : IsSome(SphereHit(objects[k], ray, t_min, t_max))
    /\ Unwrap(SphereHit(objects[2], ray, t_min, t_max)).t
        < Unwrap(SphereHit(objects[1], ray, t_min, t_max)).t
    /\ Unwrap(SphereHit(objects[2], ray, t_min, t_max)).t
        < Unwrap(SphereHit(objects[3], ray, t_min, t_max)).t
    /\ ret = SphereHit(objects[2], ray, t_min, t_max)

\* C5 as stated: a tangent ray (discriminant = 0) whose root -half_b / a
\* lies in (t_min, t_max) makes Sphere.hit return Some record with that t.
C5_TangentHits ==
    (call = "Sphere::hit" /\ QDisc = 0 /\ InOpen(FDiv(-QHalfB, QA))) =>
        (IsSome(ret) /\ Unwrap(ret).t = FDiv(-QHalfB, QA))

\* C5 amended: a tangent ray (discriminant = 0) is a miss: Sphere.hit
\* returns None, also when the root -half_b / a lies in (t_min, t_max);
\* only a discriminant > 0 yields a record.
C5_TangentMisses ==
    call = "Sphere::hit" =>
        /\ QDisc = 0 => ret = None
        /\ IsSome(ret) => QDisc > 0

\* A tangent ray whose root lies inside the interval, and no record.
C5_Witness ==
    /\ call = "Sphere::hit"
    /\ QDisc = 0
    /\ InOpen(FDiv(-QHalfB, QA))
    /\ ret = None

\* C6 as stated: after set_face_normal the stored normal satisfies
\* dot(ray.dir, normal) < 0 for every direction and every outward normal.
C6_StrictlyAgainstRay ==
    call = "set_face_normal" => dot(ray.dir, Unwrap(ret).normal) < 0

\* C6 amended: after set_face_normal, dot(ray.dir, normal) <= 0, and it is
\* < 0 unless the ray direction is perpendicular to the outward normal,
\* where it is 0, front_face is false and the normal is the negated outward
\* normal; front_face tells whether the outward normal was kept.
C6_AgainstRay ==
    call = "set_face_normal" =>
        /\ Unwrap(ret).front_face <=> dot(ray.dir, outward_normal) < 0
        /\ dot(ray.dir, Unwrap(ret).normal) <= 0
        /\ dot(ray.dir, outward_normal) # 0 => dot(ray.dir, Unwrap(ret).normal) < 0
        /\ dot(ray.dir, outward_normal) = 0 => dot(ray.dir, Unwrap(ret).normal) = 0
        /\ Unwrap(ret).normal
            = IF Unwrap(ret).front_face THEN outward_normal ELSE VNeg(outward_normal)

\* The outward normal points along the ray and has been negated.
C6_Witness ==
    /\ call = "set_face_normal"
    /\ dot(ray.dir, outward_normal) > 0
    /\ ~Unwrap(ret).front_face
    /\ Unwrap(ret).normal = VNeg(outward_normal)
    /\ dot(ray.dir, Unwrap(ret).normal) < 0

\* C10: Sphere.hit returns None when the discriminant is <= 0; otherwise
\* it tries (-half_b - sqrt(disc)) / a and then (-half_b + sqrt(disc)) / a,
\* in ascending order, and returns the first that lies strictly inside
\* (t_min, t_max), with t the accepted root and p = ray.at(t); None when
\* neither does.
C10_SphereHit ==
    call = "Sphere::hit" =>
        IF QDisc <= 0 THEN ret = None
        ELSE /\ QRoot1 <= QRoot2
             /\ IF InOpen(QRoot1)
                THEN /\ IsSome(ret)
                     /\ Unwrap(ret).t = QRoot1
                     /\ Unwrap(ret).p = at(ray, QRoot1)
                ELSE IF InOpen(QRoot2)
                THEN /\ IsSome(ret)
                     /\ Unwrap(ret).t = QRoot2
                     /\ Unwrap(ret).p = at(ray, QRoot2)
                ELSE ret = None

\* The smaller root equals t_min and is rejected; the larger is returned.
C10_Witness ==
    /\ call = "Sphere::hit"
    /\ QDisc > 0
    /\ QRoot1 = t_min
    /\ InOpen(QRoot2)
    /\ IsSome(ret)
    /\ Unwrap(ret).t = QRoot2

\* ------------------------------------------------------------------ SpecScatter
\* main's albedos and refraction index, and an index whose critical angle
\* has a sine of 0.8.
ScatterMaterials ==
    { Lambertian(Vec(100, 200, 500)),
      Metal(Vec(800, 600, 200), 300),
      Dielectric((3 * Scale) \div 2),
      Dielectric((5 * Scale) \div 4) }

ScatterDirs ==
    { IVec(4, -3, 0), IVec(3, -4, 0), IVec(0, -1, 0), IVec(0, -2, -2),
      IVec(0, -3, 4), IVec(1, 0, -1) }

ScatterNormals == { IVec(0, 1, 0), IVec(0, 0, 1), Vec(0, 600, 800) }

\* A hit record as Sphere::hit leaves it: the normal faces the ray.
InitScatter ==
    /\ material \in ScatterMaterials
    /\ r_in \in { Ray(IVec(0, 2, 0), d) : d \in ScatterDirs }
    /\ rec \in { [HitRecordDefault EXCEPT !.p = IVec(1, 1, 0), !.normal = n,
                                          !.front_face = ff, !.t = Scale] :
                    n \in ScatterNormals, ff \in BOOLEAN }
    /\ dot(r_in.dir, rec.normal) < 0
    /\ rnd = Draw(Vec3Default, Vec3Default, 0)
    /\ scattered = None
    /\ scatter_called = FALSE
    /\ HitIdle
    /\ PathIdle
    /\ CameraIdle
    /\ MainIdle
    /\ LoopIdle

\* Metal::scatter: one turn of the loop of random_vec3_in_unit_sphere()
ScatterDraw ==
    /\ ~scatter_called
    /\ material.kind = "Metal"
    /\ random_vec3_in_unit_sphere
    /\ UNCHANGED << scatterVars, hitVars, pathVars, cameraVars, mainVars >>

\* material.scatter(r_in, rec) returns
CallScatter ==
    /\ ~scatter_called
    /\ \E d \in DrawsFor(material, sphere_p) :
        /\ rnd' = d
        /\ scattered' = scatter(material, r_in, rec, d)
    /\ scatter_called' = TRUE
    /\ sphere_p' = None
    /\ UNCHANGED << material, r_in, rec, hitVars, pathVars, cameraVars, mainVars >>

NextScatter == ScatterDraw \/ CallScatter

SpecScatter == InitScatter /\ [][NextScatter]_vars

\* ------------------------------------------------------------------ claims on SpecScatter
\* etai_over_etat * sin_theta of the dielectric scatter call.
RatioSinTheta == FMul(EtaiOverEtat(material, rec), SinTheta(r_in, rec))

\* C7 as stated: when ratio * sin_theta is exactly 1.0 the reflection
\* branch is chosen for every draw: the scattered direction is
\* reflect(unit(r_in.dir), normal) and refract is never evaluated.
C7_CriticalAngleReflects ==
    (scatter_called /\ material.kind = "Dielectric" /\ RatioSinTheta = Scale) =>
        /\ DielectricBranch(material, r_in, rec, rnd) # "refract"
        /\ Unwrap(scattered).scattered.dir
            = reflect(get_normalized(r_in.dir), rec.normal)

\* C7 amended: reflection is chosen for every draw when ratio * sin_theta
\* is greater than 1.0; when it is exactly 1.0 the draw decides as below
\* the critical angle: the ray is reflected when the draw is less than
\* schlick(cos_theta, ratio) and the refraction formula is evaluated
\* otherwise.
C7_CriticalAngleDraws ==
    (scatter_called /\ material.kind = "Dielectric") =>
        /\ RatioSinTheta > Scale =>
            Unwrap(scattered).scattered.dir
                = reflect(get_normalized(r_in.dir), rec.normal)
        /\ RatioSinTheta = Scale =>
            Unwrap(scattered).scattered.dir
                = IF rnd.f < schlick(CosTheta(r_in, rec), EtaiOverEtat(material, rec))
                  THEN reflect(get_normalized(r_in.dir), rec.normal)
                  ELSE refract(get_normalized(r_in.dir), rec.normal,
                               EtaiOverEtat(material, rec))

\* At exactly the critical angle a draw above the Schlick reflectance
\* refracts: the scattered ray is not the reflected one.
C7_Witness ==
    /\ scatter_called
    /\ material.kind = "Dielectric"
    /\ RatioSinTheta = Scale
    /\ rnd.f >= schlick(CosTheta(r_in, rec), EtaiOverEtat(material, rec))
    /\ Unwrap(scattered).scattered.dir
        # reflect(get_normalized(r_in.dir), rec.normal)
    /\ Unwrap(scattered).scattered.dir
        = refract(get_normalized(r_in.dir), rec.normal, EtaiOverEtat(material, rec))

\* ------------------------------------------------------------------ SpecPath
\* A scene after main's: a diffuse sphere, a fuzzy metal sphere to its
\* right, a hollow glass sphere to its left, and a large diffuse sphere
\* as the ground.
PathWorld ==
    << Sphere(IVec(0, 0, -2), 1 * Scale, Lambertian(Vec(100, 200, 500))),
       Sphere(IVec(0, -11, -2), 10 * Scale, Lambertian(Vec(800, 800, 0))),
       Sphere(IVec(2, 0, -2), 1 * Scale, Metal(Vec(800, 600, 200), 300)),
       Sphere(IVec(-2, 0, -2), 1 * Scale, Dielectric((3 * Scale) \div 2)),
       Sphere(IVec(-2, 0, -2), -900, Dielectric((3 * Scale) \div 2)) >>

\* Camera rays from (0, 0, 1): at each sphere, at the ground and at the sky.
PathRays ==
    { Ray(IVec(0, 0, 1), d) :
        d \in { Vec(100, 200, -1000), Vec(700, 100, -1000), Vec(-700, 100, -1000),
                Vec(-600, 200, -1000), Vec(300, -900, -1000), Vec(0, 1000, -500),
                Vec(400, 100, -1000) } }

InitPath ==
    /\ world = PathWorld
    /\ path_ray \in PathRays
    /\ depth0 \in -1..MaxDepth
    /\ depth = depth0
    /\ record = None
    /\ frames = << >>
    /\ sp = 0
    /\ colour = Vec3Default
    /\ pc = "call"
    /\ n_hit = 0
    /\ n_scatter = 0
    /\ terminal = Outcome("none", Vec3Default)
    /\ HitIdle
    /\ ScatterIdle
    /\ CameraIdle
    /\ MainIdle
    /\ LoopIdle

\* if depth <= 0 { return Colour { x: 0.0, y: 0.0, z: 0.0 } }
RayColourExhausted ==
    /\ pc = "call"
    /\ exhausted(depth)
    /\ colour' = Vec(0, 0, 0)
    /\ terminal' = Outcome("exhausted", Vec(0, 0, 0))
    /\ pc' = "return"
    /\ UNCHANGED << world, path_ray, depth, depth0, record, frames, sp, n_hit,
                    n_scatter >>
    /\ UNCHANGED << hitVars, loopVars, scatterVars, cameraVars, mainVars >>

\* match hittable.hit(ray, 0.001, infinite())
RayColourHitTest ==
    /\ pc = "call"
    /\ ~exhausted(depth)
    /\ record' = ray_colour_hit(path_ray, world)
    /\ n_hit' = n_hit + 1
    /\ pc' = "match"
    /\ UNCHANGED << world, path_ray, depth, depth0, frames, sp, colour, n_scatter,
                    terminal >>
    /\ UNCHANGED << hitVars, loopVars, scatterVars, cameraVars, mainVars >>

\* None => {}, and ray_colour returns the background.
RayColourMiss ==
    /\ pc = "match"
    /\ record = None
    /\ colour' = background(path_ray)
    /\ terminal' = Outcome("miss", background(path_ray))
    /\ pc' = "return"
    /\ UNCHANGED << world, path_ray, depth, depth0, record, frames, sp, n_hit,
                    n_scatter >>
    /\ UNCHANGED << hitVars, loopVars, scatterVars, cameraVars, mainVars >>

\* Some(record), and record.material.scatter(ray, record) is in
\* Metal::scatter's call of random_vec3_in_unit_sphere(): one turn of its
\* loop.
RayColourDraw ==
    /\ pc = "match"
    /\ IsSome(record)
    /\ Unwrap(record).material.kind = "Metal"
    /\ random_vec3_in_unit_sphere
    /\ UNCHANGED << pathVars, hitVars, scatterVars, cameraVars, mainVars >>

\* Some(record), and record.material.scatter(ray, record) is None:
\* return Colour::default()
RayColourAbsorbed ==
    /\ pc = "match"
    /\ IsSome(record)
    /\ \E d \in DrawsFor(Unwrap(record).material, sphere_p) :
        scatter(Unwrap(record).material, path_ray, Unwrap(record), d) = None
    /\ sphere_p' = None
    /\ colour' = absorbed
    /\ terminal' = Outcome("absorbed", absorbed)
    /\ n_scatter' = n_scatter + 1
    /\ pc' = "return"
    /\ UNCHANGED << world, path_ray, depth, depth0, record, frames, sp, n_hit >>
    /\ UNCHANGED << hitVars, scatterVars, cameraVars, mainVars >>

\* Some(record), and record.material.scatter(ray, record) is
\* Some((attenuation, scattered)): call
\* ray_colour(scattered, hittable, depth - 1)
RayColourScatter ==
    /\ pc = "match"
    /\ IsSome(record)
    /\ \E d \in DrawsFor(Unwrap(record).material, sphere_p) :
        LET sc == scatter(Unwrap(record).material, path_ray, Unwrap(record), d)
        IN  /\ IsSome(sc)
            /\ frames' = Append(frames, Unwrap(sc).attenuation)
            /\ path_ray' = Unwrap(sc).scattered
    /\ depth' = depth - 1
    /\ sp' = sp + 1
    /\ n_scatter' = n_scatter + 1
    /\ sphere_p' = None
    /\ pc' = "call"
    /\ UNCHANGED << world, depth0, record, colour, n_hit, terminal >>
    /\ UNCHANGED << hitVars, scatterVars, cameraVars, mainVars >>

\* The callee has returned `colour`: the caller returns
\* attenuation * colour.
RayColourReturn ==
    /\ pc = "return"
    /\ sp > 0
    /\ colour' = attenuate(frames[sp], colour)
    /\ sp' = sp - 1
    /\ UNCHANGED << world, path_ray, depth, depth0, record, frames, pc, n_hit,
                    n_scatter, terminal >>
    /\ UNCHANGED << hitVars, loopVars, scatterVars, cameraVars, mainVars >>

\* The outermost invocation has returned.
RayColourDone ==
    /\ pc = "return"
    /\ sp = 0
    /\ pc' = "done"
    /\ UNCHANGED << world, path_ray, depth, depth0, record, frames, sp, colour,
                    n_hit, n_scatter, terminal >>
    /\ UNCHANGED << hitVars, loopVars, scatterVars, cameraVars, mainVars >>

NextPath ==
    \/ RayColourExhausted
    \/ RayColourHitTest
    \/ RayColourMiss
    \/ RayColourDraw
    \/ RayColourAbsorbed
    \/ RayColourScatter
    \/ RayColourReturn
    \/ RayColourDone

SpecPath == InitPath /\ [][NextPath]_vars

\* ------------------------------------------------------------------ claims on SpecPath
\* The budget of the outermost call: its depth, or 0 when that is negative.
Budget == IF depth0 > 0 THEN depth0 ELSE 0

\* Metal::scatter is in the loop of random_vec3_in_unit_sphere, which has
\* not returned: no p drawn yet, or a rejected one.
InRejectionLoop ==
    /\ pc = "match"
    /\ IsSome(record)
    /\ Unwrap(record).material.kind = "Metal"
    /\ ~returned(sphere_p)

\* At most depth0 hit tests and scatter calls; the depth argument is the
\* outermost one less the number of recursive calls; an invocation with
\* depth <= 0 makes no hit test and returns black; an invocation that has
\* not returned can take its next step.
C2_Bounded ==
    /\ n_hit <= Budget
    /\ n_scatter <= Budget
    /\ n_scatter <= n_hit
    /\ depth = depth0 - Len(frames)
    /\ pc \in { "call", "match", "return", "done" }
    /\ pc = "match" => depth > 0
    /\ (pc = "match" /\ IsSome(record)) =>
        \/ DrawsFor(Unwrap(record).material, sphere_p) # {}
        \/ InRejectionLoop
    /\ (pc \in { "return", "done" } /\ depth <= 0) =>
        /\ terminal = Outcome("exhausted", Vec(0, 0, 0))
        /\ n_hit = Len(frames)

\* The depth argument changes only at a recursive call, by exactly -1.
C2_DepthArgument ==
    /\ depth' # depth => depth' = depth - 1
    /\ Len(frames') # Len(frames) =>
        (Len(frames') = Len(frames) + 1 /\ depth' = depth - 1)

\* A bound on the number of steps the call has left outside the loop of
\* random_vec3_in_unit_sphere: four for each unit of depth left, one for
\* each invocation that has not returned.
StepsLeft ==
    sp + (IF pc = "call" THEN 4 * (IF depth > 0 THEN depth ELSE 0) + 4
          ELSE IF pc = "match"
          THEN 4 * (IF depth > 0 THEN depth ELSE 0) + 2
                + (IF InRejectionLoop THEN 1 ELSE 0)
          ELSE IF pc = "return" THEN 1
          ELSE 0)

\* Every step takes the call closer to its return, but a turn of the loop
\* of random_vec3_in_unit_sphere that rejects its p, which leaves it where
\* it was.
C2_StepsLeftStep ==
    /\ StepsLeft' >= 0
    /\ \/ StepsLeft' < StepsLeft
       \/ (InRejectionLoop /\ InRejectionLoop' /\ StepsLeft' = StepsLeft)

\* A running call of ray_colour takes its next step: a turn of the loop of
\* random_vec3_in_unit_sphere when it is in one, and, until it has
\* returned, a step of some kind again and again.
SpecPathFair ==
    /\ SpecPath
    /\ WF_vars(RayColourDraw)
    /\ ([]<>(pc = "done") \/ []<><<TRUE>>_vars)

\* C2 as stated: ray_colour(ray, scene, depth) always terminates, for
\* every sequence of random draws: a call with depth = d >= 0 performs at
\* most d hit tests and at most d scatter calls, the depth argument
\* decreases by exactly 1 at each recursive call, a call with depth <= 0
\* returns black without intersecting the scene, and every call returns.
C2_AlwaysTerminates ==
    /\ []C2_Bounded
    /\ [][C2_DepthArgument]_vars
    /\ <>(pc = "done")

\* C2 amended: the bounds as stated (at most d hit tests and d scatter
\* calls, depth - 1 at each recursive call, black without a hit test for
\* depth <= 0), and ray_colour returns unless a call of
\* random_vec3_in_unit_sphere rejects every p it draws: every step other
\* than a rejected draw decreases a bound on the steps left, and a call
\* that never returns stays in that loop for ever.
C2_TerminatesUnlessRejecting ==
    /\ []C2_Bounded
    /\ [][C2_DepthArgument /\ C2_StepsLeftStep]_vars
    /\ (<>(pc = "done") \/ <>[]InRejectionLoop)

\* The last unit of depth of a call of depth MaxDepth, at a metal sphere:
\* the whole budget of hit tests is used, and the loop of
\* random_vec3_in_unit_sphere has just rejected a p.
C2_Witness ==
    /\ InRejectionLoop
    /\ IsSome(sphere_p)
    /\ rejected(Unwrap(sphere_p))
    /\ depth0 = MaxDepth
    /\ n_hit = MaxDepth
    /\ n_scatter = MaxDepth - 1
    /\ depth = 1

\* A path that used the whole budget: MaxDepth bounces, then black.
C2_WitnessExhausted ==
    /\ pc = "done"
    /\ depth0 = MaxDepth
    /\ n_hit = MaxDepth
    /\ n_scatter = MaxDepth
    /\ depth = 0
    /\ terminal.tag = "exhausted"

\* The background gradient (1 - t) * (1, 1, 1) + t * (0.5, 0.7, 1.0) with
\* t = 0.5 * (unit(dir).y + 1), by components.
GradientT(r) == FMul(Scale \div 2, get_normalized(r.dir).y + Scale)
Gradient(r) ==
    Vec(FMul(Scale - GradientT(r), Scale) + FMul(GradientT(r), Scale \div 2),
        FMul(Scale - GradientT(r), Scale) + FMul(GradientT(r), (7 * Scale) \div 10),
        FMul(Scale - GradientT(r), Scale) + FMul(GradientT(r), Scale))

\* The component-wise product of the attenuations k.. of the path with the
\* terminal colour.
RECURSIVE PathProduct(_)
PathProduct(k) ==
    IF k > Len(frames) THEN terminal.colour
    ELSE VMul(frames[k], PathProduct(k + 1))

\* C3: every light path ends in one of three outcomes, each a colour:
\* depth exhaustion gives black, absorption gives black, a miss gives the
\* background gradient; the outermost call returns the component-wise
\* product of the attenuations of all scatter events of the path with
\* that terminal colour.
C3_PathValue ==
    pc = "done" =>
        /\ terminal.tag \in { "exhausted", "absorbed", "miss" }
        /\ terminal.tag = "exhausted" <=> depth <= 0
        /\ terminal.tag = "miss" <=> (depth > 0 /\ record = None)
        /\ terminal.tag = "exhausted" => terminal.colour = Vec(0, 0, 0)
        /\ terminal.tag = "absorbed" => terminal.colour = Vec(0, 0, 0)
        /\ terminal.tag = "miss" => terminal.colour = Gradient(path_ray)
        /\ n_scatter = Len(frames) + (IF terminal.tag = "absorbed" THEN 1 ELSE 0)
        /\ colour = PathProduct(1)

\* Two bounces off different materials, then the sky.
C3_Witness ==
    /\ pc = "done"
    /\ Len(frames) = 2
    /\ frames[1] # frames[2]
    /\ terminal.tag = "miss"
    /\ colour = VMul(frames[1], VMul(frames[2], Gradient(path_ray)))
    /\ colour # terminal.colour

\* A path that ends absorbed after a bounce.
C3_WitnessAbsorbed ==
    /\ pc = "done"
    /\ Len(frames) >= 1
    /\ terminal.tag = "absorbed"

\* ------------------------------------------------------------------ SpecCamera
\* Cameras at the origin looking down -z (fields of view of 90 and of 40
\* degrees), one looking along (-3, 0, -4), and main's camera.
CameraArgsSet ==
    { CameraArgs(IVec(0, 0, 0), IVec(0, 0, -1), IVec(0, 1, 0), 90 * Scale,
                 2 * Scale, 2 * Scale, 1 * Scale),
      CameraArgs(IVec(0, 0, 0), IVec(-3, 0, -4), IVec(0, 1, 0), 60 * Scale,
                 2 * Scale, 1 * Scale, 5 * Scale),
      CameraArgs(IVec(0, 0, 0), IVec(0, 0, -1), IVec(0, 1, 0), 40 * Scale,
                 2 * Scale, 2 * Scale, 1 * Scale),
      CameraArgs(IVec(-2, 2, 1), IVec(0, 0, -1), IVec(0, 1, 0), 20 * Scale,
                 FDiv(384 * Scale, 216 * Scale), 2 * Scale,
                 length(VSub(IVec(-2, 2, 1), IVec(0, 0, -1)))) }

\* The normalised image coordinates of get_ray.
ImageCoords == { 0, Scale \div 4, Scale \div 2, Scale }

InitCamera ==
    /\ cam_args \in CameraArgsSet
    /\ camera = create_camera(cam_args)
    /\ cam_s \in ImageCoords
    /\ cam_t \in ImageCoords
    /\ disk = Vec3Default
    /\ got_ray = None
    /\ HitIdle
    /\ ScatterIdle
    /\ PathIdle
    /\ MainIdle
    /\ LoopIdle

\* get_ray(camera, cam_s, cam_t)
CallGetRay ==
    /\ got_ray = None
    /\ \E p \in random_in_unit_disk :
        /\ disk' = p
        /\ got_ray' = Some(get_ray(camera, cam_s, cam_t, p))
    /\ UNCHANGED << cam_args, camera, cam_s, cam_t >>
    /\ UNCHANGED << hitVars, loopVars, scatterVars, pathVars, mainVars >>

NextCamera == CallGetRay

SpecCamera == InitCamera /\ [][NextCamera]_vars

\* ------------------------------------------------------------------ claims on SpecCamera
\* The lens sample rd = lens_radius * (point of the unit disk).
LensSample == VScale(camera.lens_radius, disk)

\* The point of the focus plane for (cam_s, cam_t).
FocusPoint ==
    VAdd(VAdd(camera.lower_left_corner, VScale(cam_s, camera.horizontal)),
         VScale(cam_t, camera.vertical))

\* C8: get_ray jitters the ray origin inside the lens: the origin is
\* camera.origin + rd.x * u + rd.y * v with u, v the camera's basis
\* vectors of create_camera (whatever the image coordinates), and
\* origin + direction is the focus-plane point
\* lower_left_corner + s * horizontal + t * vertical.
C8_LensJitter ==
    IsSome(got_ray) =>
        /\ Unwrap(got_ray).origin
            = VAdd(camera.origin,
                   VAdd(VScale(LensSample.x, camera_u(cam_args)),
                        VScale(LensSample.y, camera_v(cam_args))))
        /\ VAdd(Unwrap(got_ray).origin, Unwrap(got_ray).dir) = FocusPoint

\* What get_ray does: the origin is displaced by (s * rd.x, t * rd.y, 0)
\* along the world axes, and origin + direction is the focus-plane point.
C8_CodeOffset ==
    IsSome(got_ray) =>
        /\ Unwrap(got_ray).origin
            = VAdd(camera.origin,
                   Vec(FMul(cam_s, LensSample.x), FMul(cam_t, LensSample.y), 0))
        /\ VAdd(Unwrap(got_ray).origin, Unwrap(got_ray).dir) = FocusPoint

\* ------------------------------------------------------------------ SpecMain
\* Values ray_colour returns to main: black and white.
MainColours == { Vec(0, 0, 0), Vec(Scale, Scale, Scale) }

InitMain ==
    /\ main_pc = "start"
    /\ image_width = ImageWidth
    /\ image_height = height_of(ImageWidth)
    /\ samples_per_pixel = SamplesPerPixel
    /\ j_iter = << >>
    /\ i = 0
    /\ s_idx = 0
    /\ pixel_colour = Vec3Default
    /\ stdout = << >>
    /\ order = << >>
    /\ bar = 0
    /\ written = None
    /\ HitIdle
    /\ ScatterIdle
    /\ PathIdle
    /\ CameraIdle
    /\ LoopIdle

\* println!("P3"); println!("{0} {1}", ...); println!("255"); the scene and
\* the progress bar are built and the row loop is entered.
MainHeader ==
    /\ main_pc = "start"
    /\ stdout' = header(image_width, image_height)
    /\ j_iter' = rows(image_height)
    /\ i' = 0
    /\ s_idx' = 0
    /\ pixel_colour' = Vec3Default
    /\ main_pc' = "loop"
    /\ UNCHANGED << image_width, image_height, samples_per_pixel, order, bar,
                    written >>
    /\ UNCHANGED << hitVars, loopVars, scatterVars, pathVars, cameraVars >>

\* One turn of `for _s in 0..samples_per_pixel`:
\* pixel_colour += ray_colour(r, Box::new(&world), depth)
MainSample ==
    /\ main_pc = "loop"
    /\ j_iter # << >>
    /\ i < image_width
    /\ s_idx < samples_per_pixel
    /\ \E c \in MainColours : pixel_colour' = VAdd(pixel_colour, c)
    /\ s_idx' = s_idx + 1
    /\ UNCHANGED << main_pc, image_width, image_height, samples_per_pixel, j_iter,
                    i, stdout, order, bar, written >>
    /\ UNCHANGED << hitVars, loopVars, scatterVars, pathVars, cameraVars >>

\* write_colour(pixel_colour, samples_per_pixel), and the next turn of
\* `for i in 0..image_width` begins.
MainWriteColour ==
    /\ main_pc = "loop"
    /\ j_iter # << >>
    /\ i < image_width
    /\ s_idx = samples_per_pixel
    /\ stdout' = Append(stdout, write_colour(pixel_colour, samples_per_pixel))
    /\ order' = Append(order, << Head(j_iter), i >>)
    /\ i' = i + 1
    /\ s_idx' = 0
    /\ pixel_colour' = Vec3Default
    /\ UNCHANGED << main_pc, image_width, image_height, samples_per_pixel, j_iter,
                    bar, written >>
    /\ UNCHANGED << hitVars, loopVars, scatterVars, pathVars, cameraVars >>

\* bar.inc(1), and the next turn of `for j in (0..image_height).rev()`
\* begins.
MainBarInc ==
    /\ main_pc = "loop"
    /\ j_iter # << >>
    /\ i = image_width
    /\ bar' = bar + 1
    /\ j_iter' = Tail(j_iter)
    /\ i' = 0
    /\ UNCHANGED << main_pc, image_width, image_height, samples_per_pixel, s_idx,
                    pixel_colour, stdout, order, written >>
    /\ UNCHANGED << hitVars, loopVars, scatterVars, pathVars, cameraVars >>

\* eprintln!("Done.")
MainDone ==
    /\ main_pc = "loop"
    /\ j_iter = << >>
    /\ main_pc' = "done"
    /\ UNCHANGED << image_width, image_height, samples_per_pixel, j_iter, i, s_idx,
                    pixel_colour, stdout, order, bar, written >>
    /\ UNCHANGED << hitVars, loopVars, scatterVars, pathVars, cameraVars >>

NextMain == MainHeader \/ MainSample \/ MainWriteColour \/ MainBarInc \/ MainDone

SpecMain == InitMain /\ [][NextMain]_vars

\* ------------------------------------------------------------------ claims on SpecMain
\* The (j, i) of the k-th pixel in scan order: rows from image_height - 1
\* down to 0, columns from 0 up to image_width - 1.
ScanOrder(k) ==
    << image_height - 1 - ((k - 1) \div image_width), (k - 1) % image_width >>

\* C4: the header lines P3, '<width> <height>', 255 come first, then
\* exactly width * height pixel lines, one per pixel, in scan order (j from
\* height - 1 down to 0, within a row i from 0 up to width - 1); the
\* progress bar is advanced once per completed row, after all of that
\* row's pixels have been written.
C4_ScanOrder ==
    /\ main_pc = "start" => (stdout = << >> /\ bar = 0)
    /\ main_pc # "start" =>
        /\ Len(stdout) = 3 + Len(order)
        /\ SubSeq(stdout, 1, 3)
            = << Line("P3", << >>), Line("size", << image_width, image_height >>),
                 Line("max", << 255 >>) >>
        /\ \A k \in 1..Len(order) :
            /\ order[k] = ScanOrder(k)
            /\ stdout[3 + k].tag = "rgb"
        /\ bar * image_width <= Len(order)
        /\ Len(order) <= (bar + 1) * image_width
        /\ Len(order) <= image_width * image_height
    /\ main_pc = "done" =>
        /\ Len(order) = image_width * image_height
        /\ bar = image_height

\* The whole image has been written: at least two rows of at least two
\* columns, the last pixel being (0, width - 1).
C4_Witness ==
    /\ main_pc = "done"
    /\ image_height >= 2
    /\ image_width >= 2
    /\ Len(stdout) = 3 + image_width * image_height
    /\ order[1] = << image_height - 1, 0 >>
    /\ order[Len(order)] = << 0, image_width - 1 >>
    /\ bar = image_height

\* ------------------------------------------------------------------ SpecPixel
\* Values ray_colour returns: colours with components in [0, 1].
PixelColours ==
    { Vec(r, g, b) : r \in { 0, Scale \div 2, Scale },
                     g \in { 0, Scale \div 4, Scale },
                     b \in { 0, Scale } }

\* main at the first turn of the sample loop of one pixel.
InitPixel ==
    /\ main_pc = "pixel"
    /\ image_width = 0
    /\ image_height = 0
    /\ samples_per_pixel \in 1..MaxSamples
    /\ j_iter = << >>
    /\ i = 0
    /\ s_idx = 0
    /\ pixel_colour = Vec3Default
    /\ stdout = << >>
    /\ order = << >>
    /\ bar = 0
    /\ written = None
    /\ HitIdle
    /\ ScatterIdle
    /\ PathIdle
    /\ CameraIdle
    /\ LoopIdle

\* pixel_colour += ray_colour(r, Box::new(&world), depth)
PixelSample ==
    /\ main_pc = "pixel"
    /\ s_idx < samples_per_pixel
    /\ \E c \in PixelColours : pixel_colour' = VAdd(pixel_colour, c)
    /\ s_idx' = s_idx + 1
    /\ UNCHANGED << main_pc, image_width, image_height, samples_per_pixel, j_iter,
                    i, stdout, order, bar, written >>
    /\ UNCHANGED << hitVars, loopVars, scatterVars, pathVars, cameraVars >>

\* write_colour(pixel_colour, samples_per_pixel)
PixelWrite ==
    /\ main_pc = "pixel"
    /\ s_idx = samples_per_pixel
    /\ written' = Some(write_colour(pixel_colour, samples_per_pixel))
    /\ main_pc' = "written"
    /\ UNCHANGED << image_width, image_height, samples_per_pixel, j_iter, i, s_idx,
                    pixel_colour, stdout, order, bar >>
    /\ UNCHANGED << hitVars, loopVars, scatterVars, pathVars, cameraVars >>

NextPixel == PixelSample \/ PixelWrite

SpecPixel == InitPixel /\ [][NextPixel]_vars

\* ------------------------------------------------------------------ claims on SpecPixel
\* C9: for samples with components in [0, 1], every channel value written
\* is an integer in [0, 255]: the sum divided by the number of samples,
\* gamma-corrected by sqrt and quantized as the integer part of
\* 255.999 * value is never below 0 or above 255, an average of exactly
\* 1.0 is written as 255 and an average of 0 as 0.
C9_ChannelRange ==
    IsSome(written) =>
        /\ Unwrap(written).tag = "rgb"
        /\ \A k \in 1..3 : Unwrap(written).v[k] \in 0..255
        /\ pixel_colour.x = samples_per_pixel * Scale => Unwrap(written).v[1] = 255
        /\ pixel_colour.y = samples_per_pixel * Scale => Unwrap(written).v[2] = 255
        /\ pixel_colour.z = samples_per_pixel * Scale => Unwrap(written).v[3] = 255
        /\ pixel_colour.x = 0 => Unwrap(written).v[1] = 0
        /\ pixel_colour.y = 0 => Unwrap(written).v[2] = 0
        /\ pixel_colour.z = 0 => Unwrap(written).v[3] = 0

\* Two samples, the red channel averaging exactly 1.0, the green one in
\* between, the blue one 0.
C9_Witness ==
    /\ IsSome(written)
    /\ samples_per_pixel = 2
    /\ pixel_colour.x = 2 * Scale
    /\ Unwrap(written).v[1] = 255
    /\ Unwrap(written).v[2] \in 1..254
    /\ Unwrap(written).v[3] = 0

====
